---- MODULE Spec2Model ----
(***************************************************************************)
(* Model of the migration transforms of fluent.migrate (transforms.py) and *)
(* of the FTL-to-Transform compiler of fluent.migratetb (helpers.py).      *)
(*                                                                         *)
(* Text is a sequence of one-character strings.  AST nodes are records     *)
(* with a "type" field named after the Python class.  A raised exception   *)
(* is a record whose type is the exception class; it propagates through    *)
(* every caller.                                                           *)
(***************************************************************************)
EXTENDS Integers, Sequences, FiniteSets, TLC

VARIABLES ctx, spec, node, elements, before, result, pc

vars == <<ctx, spec, node, elements, before, result, pc>>

(***************************************************************************)
(* Bounds of the model.                                                    *)
(***************************************************************************)
MaxElems == 4

(***************************************************************************)
(* Characters.  \s of Python's re matches the whitespace characters; the   *)
(* dot does not match a line break (no re.S flag is given).                *)
(***************************************************************************)
Whitespace == {" ", "\n"}
Newline == "\n"

RECURSIVE TextsUpTo(_, _)
TextsUpTo(chars, n) ==
    IF n = 0 THEN {<<>>}
    ELSE LET shorter == TextsUpTo(chars, n - 1)
         IN shorter \cup {Append(s, c) : s \in shorter, c \in chars}

RECURSIVE SeqsUpTo(_, _)
SeqsUpTo(S, n) ==
    IF n = 0 THEN {<<>>}
    ELSE LET shorter == SeqsUpTo(S, n - 1)
         IN shorter \cup {Append(s, x) : s \in shorter, x \in S}

(***************************************************************************)
(* AST nodes of fluent.syntax.ast used by the transforms.                  *)
(***************************************************************************)
TextElement(v) == [type |-> "TextElement", value |-> v]
StringExpression(v) == [type |-> "StringExpression", value |-> v]
VariableReference(name) == [type |-> "VariableReference", id |-> name]
Placeable(e) == [type |-> "Placeable", expression |-> e]
Pattern(elems) == [type |-> "Pattern", elements |-> elems]
VariantNode(k, v, d) == [type |-> "Variant", key |-> k, value |-> v, default |-> d]
SelectExpression(sel, vs) ==
    [type |-> "SelectExpression", expression |-> sel, variants |-> vs]

None == [type |-> "None"]
Raise(exc) == [type |-> exc]
Exceptions ==
    {"RuntimeError", "KeyError", "IndexError", "TypeError", "AttributeError",
     "NotSupportedError", "InvalidTransformError"}
IsError(x) == x.type \in Exceptions

PatternElementTypes == {"TextElement", "Placeable"}
ExpressionTypes ==
    {"StringExpression", "VariableReference", "SelectExpression",
     "MessageReference", "TermReference", "FunctionReference"}

(***************************************************************************)
(* Transform.flatten_elements                                              *)
(***************************************************************************)
RECURSIVE flatten_elements(_)
flatten_elements(elems) ==
    IF elems = <<>> THEN Pattern(<<>>)
    ELSE LET element == Head(elems)
             rest == flatten_elements(Tail(elems))
             first ==
                 IF element.type = "Pattern" THEN Pattern(element.elements)
                 ELSE IF element.type \in PatternElementTypes
                      THEN Pattern(<<element>>)
                 ELSE IF element.type \in ExpressionTypes
                      THEN Pattern(<<Placeable(element)>>)
                 ELSE Raise("RuntimeError")
         IN IF IsError(first) THEN first
            ELSE IF IsError(rest) THEN rest
            ELSE Pattern(first.elements \o rest.elements)

(***************************************************************************)
(* Transform.normalize_text_content                                        *)
(***************************************************************************)
HasText(element) ==
    \/ element.type = "TextElement"
    \/ /\ element.type = "Placeable"
       /\ element.expression.type = "StringExpression"

get_text(element) ==
    IF element.type = "TextElement" THEN element.value
    ELSE element.expression.value

RECURSIVE NormalizeLoop(_, _)
NormalizeLoop(joined, elems) ==
    IF elems = <<>> THEN joined
    ELSE LET current == Head(elems)
             n == Len(joined)
         IN IF ~HasText(current)
            THEN NormalizeLoop(Append(joined, current), Tail(elems))
            ELSE IF n > 0 /\ joined[n].type = "TextElement"
            THEN NormalizeLoop(
                     [joined EXCEPT ![n] =
                         TextElement(joined[n].value \o get_text(current))],
                     Tail(elems))
            ELSE IF Len(get_text(current)) > 0
            THEN NormalizeLoop(
                     Append(joined, TextElement(get_text(current))),
                     Tail(elems))
            ELSE NormalizeLoop(joined, Tail(elems))

\* A variant that converts text content without joining adjacent runs.
RECURSIVE normalize_without_join(_)
normalize_without_join(elems) ==
    IF elems = <<>> THEN <<>>
    ELSE LET current == Head(elems)
             rest == normalize_without_join(Tail(elems))
         IN IF ~HasText(current) THEN <<current>> \o rest
            ELSE IF Len(get_text(current)) > 0
            THEN <<TextElement(get_text(current))>> \o rest
            ELSE rest

normalize_text_content(elems) == NormalizeLoop(<<>>, elems)

(***************************************************************************)
(* Transform.preserve_whitespace.  The two regular expressions are         *)
(* modelled by the matches Python's backtracking matcher finds: \s+ is     *)
(* greedy, .*? is lazy and does not cross a line break, and $ matches at   *)
(* the end of the text or just before a line break that ends the text.     *)
(* A position is the number of characters consumed.                        *)
(***************************************************************************)
AtDollar(s, m) ==
    \/ m = Len(s)
    \/ m = Len(s) - 1 /\ s[Len(s)] = Newline

Max(S) == CHOOSE x \in S : \A y \in S : y <= x
Min(S) == CHOOSE x \in S : \A y \in S : x <= y

NoMatch == [matched |-> FALSE, whitespace |-> <<>>, text |-> <<>>]

\* ^(?P<whitespace>\s+)(?P<text>.*?)$
re_leading(s) ==
    LET Ends(j) ==
            {m \in j..Len(s) :
                /\ \A i \in (j + 1)..m : s[i] # Newline
                /\ AtDollar(s, m)}
        Starts ==
            {j \in 1..Len(s) :
                /\ \A i \in 1..j : s[i] \in Whitespace
                /\ Ends(j) # {}}
    IN IF Starts = {} THEN NoMatch
       ELSE LET j == Max(Starts)
                m == Min(Ends(j))
            IN [matched |-> TRUE,
                whitespace |-> SubSeq(s, 1, j),
                text |-> SubSeq(s, j + 1, m)]

\* ^(?P<text>.*?)(?P<whitespace>\s+)$
re_trailing(s) ==
    LET Ends(i) ==
            {m \in (i + 1)..Len(s) :
                /\ \A k \in (i + 1)..m : s[k] \in Whitespace
                /\ AtDollar(s, m)}
        Starts ==
            {i \in 0..Len(s) :
                /\ \A k \in 1..i : s[k] # Newline
                /\ Ends(i) # {}}
    IN IF Starts = {} THEN NoMatch
       ELSE LET i == Min(Starts)
                m == Max(Ends(i))
            IN [matched |-> TRUE,
                whitespace |-> SubSeq(s, i + 1, m),
                text |-> SubSeq(s, 1, i)]

\* The pair (Placeable, TextElement) the inner function returns; either
\* may be None.
extract_whitespace(match, element) ==
    IF match.matched
    THEN LET empty_expr == Placeable(StringExpression(match.whitespace))
         IN IF match.whitespace = element.value
            THEN <<empty_expr, None>>
            ELSE <<empty_expr, TextElement(match.text)>>
    ELSE <<None, element>>

SplitLeading(elems) ==
    IF elems[1].type = "TextElement"
    THEN LET pair == extract_whitespace(re_leading(elems[1].value), elems[1])
         IN <<pair[1], pair[2]>> \o Tail(elems)
    ELSE elems

SplitTrailing(elems) ==
    LET n == Len(elems)
    IN IF elems[n].type = "TextElement"
       THEN LET pair ==
                    extract_whitespace(re_trailing(elems[n].value), elems[n])
            IN SubSeq(elems, 1, n - 1) \o <<pair[2], pair[1]>>
       ELSE elems

IsNotNone(element) == element.type # "None"

\* A variant without the special case for empty values.
preserve_without_marker(elems) ==
    IF Len(elems) = 0 THEN <<>>
    ELSE SelectSeq(SplitTrailing(SplitLeading(elems)), IsNotNone)

preserve_whitespace(elems) ==
    IF Len(elems) = 0
    THEN <<Placeable(StringExpression(<<>>))>>
    ELSE SelectSeq(SplitTrailing(SplitLeading(elems)), IsNotNone)

(***************************************************************************)
(* Transform.pattern_of                                                    *)
(***************************************************************************)
pattern_of(args) ==
    LET flat == flatten_elements(args)
    IN IF IsError(flat) THEN flat
       ELSE Pattern(preserve_whitespace(normalize_text_content(flat.elements)))

(***************************************************************************)
(* Python string and list operations used by the transforms.  Indices of   *)
(* find are 0-based, -1 when the text does not contain the key.            *)
(***************************************************************************)
OccursAt(s, k, i) ==
    /\ i + Len(k) <= Len(s)
    /\ SubSeq(s, i + 1, i + Len(k)) = k

find(s, k) ==
    LET hits == {i \in 0..Len(s) : OccursAt(s, k, i)}
    IN IF hits = {} THEN -1 ELSE Min(hits)

Contains(s, k) == find(s, k) # -1

partition(s, k) ==
    LET i == find(s, k)
    IN IF i = -1 THEN <<s, <<>>, <<>>>>
       ELSE <<SubSeq(s, 1, i), k, SubSeq(s, i + Len(k) + 1, Len(s))>>

RECURSIVE split(_, _)
split(s, sep) ==
    LET cuts == {i \in 1..Len(s) : s[i] = sep}
    IN IF cuts = {} THEN <<s>>
       ELSE LET i == Min(cuts)
            IN <<SubSeq(s, 1, i - 1)>> \o split(SubSeq(s, i + 1, Len(s)), sep)

\* sorted() and list.sort() are stable: items of equal rank keep their order.
StableSort(items, ranks) ==
    LET n == Len(items)
        Pos(i) ==
            1 + Cardinality({j \in 1..n :
                    \/ ranks[j] < ranks[i]
                    \/ ranks[j] = ranks[i] /\ j < i})
    IN [p \in 1..n |-> items[CHOOSE i \in 1..n : Pos(i) = p]]

zip(xs, ys) ==
    LET n == IF Len(xs) < Len(ys) THEN Len(xs) ELSE Len(ys)
    IN [i \in 1..n |-> <<xs[i], ys[i]>>]

(***************************************************************************)
(* Transform nodes.  A replacements dict is the sequence of its items in   *)
(* iteration order, each a record of a key and a replacement node.  The    *)
(* foreach callback of PLURALS is one of the two functions the module      *)
(* documents: Transform.pattern_of, or a lambda that wraps the form in     *)
(* REPLACE_IN_TEXT with given replacements.                                *)
(***************************************************************************)
CONCAT(elems) == [type |-> "CONCAT", elements |-> elems]
COPY(path, key) == [type |-> "COPY", path |-> path, key |-> key]
REPLACE_IN_TEXT(element, replacements) ==
    [type |-> "REPLACE_IN_TEXT", element |-> element,
     replacements |-> replacements]
REPLACE(path, key, replacements) ==
    [type |-> "REPLACE", path |-> path, key |-> key,
     replacements |-> replacements]
PLURALS(path, key, selector, foreach) ==
    [type |-> "PLURALS", path |-> path, key |-> key,
     selector |-> selector, foreach |-> foreach]

Item(key, repl) == [key |-> key, repl |-> repl]
ForeachPatternOf == [type |-> "pattern_of", replacements |-> <<>>]
ForeachReplace(replacements) ==
    [type |-> "lambda", replacements |-> replacements]

TransformTypes == {"CONCAT", "COPY", "REPLACE_IN_TEXT", "REPLACE", "PLURALS"}

DEFAULT_ORDER == <<"zero", "one", "two", "few", "many", "other">>

index(seq, x) == Min({i \in 1..Len(seq) : seq[i] = x})

(***************************************************************************)
(* The context: the legacy text its get_source returns for the migrated    *)
(* (path, key) and the plural categories of the locale.                    *)
(***************************************************************************)
Context(text, categories) ==
    [source |-> text, plural_categories |-> categories]

NoContext == Context(<<>>, <<>>)

(***************************************************************************)
(* Source.__init__ and Source.__call__                                     *)
(***************************************************************************)
endswith(s, suffix) ==
    /\ Len(suffix) <= Len(s)
    /\ SubSeq(s, Len(s) - Len(suffix) + 1, Len(s)) = suffix

FtlSuffix == <<".", "f", "t", "l">>

Source_init(path, node_if_ok) ==
    IF endswith(path, FtlSuffix) THEN Raise("NotSupportedError")
    ELSE node_if_ok

get_source(c, path, key) == c.source

Source_call(c, n) == TextElement(get_source(c, n.path, n.key))

(***************************************************************************)
(* COPY.__call__ and CONCAT.__call__                                       *)
(***************************************************************************)
COPY_call(c, n) == pattern_of(<<Source_call(c, n)>>)

CONCAT_call(c, n) == pattern_of(n.elements)

(***************************************************************************)
(* evaluate(ctx, node): BaseNode.traverse rebuilds every node from its     *)
(* traversed fields, children first, and calls each Transform it meets.    *)
(* Dicts and functions held by a node are not traversed.                   *)
(***************************************************************************)
List(items) == [type |-> "list", items |-> items]

Reverse(seq) == [i \in 1..Len(seq) |-> seq[Len(seq) - i + 1]]

Range(seq) == {seq[i] : i \in 1..Len(seq)}

HasKey(items, key) == \E i \in 1..Len(items) : items[i].key = key

Lookup(items, key) ==
    items[CHOOSE i \in 1..Len(items) : items[i].key = key].repl

RECURSIVE evaluate(_, _)
RECURSIVE EvaluateAll(_, _)
RECURSIVE REPLACE_IN_TEXT_call(_, _)
RECURSIVE PLURALS_call(_, _)

EvaluateAll(c, nodes) ==
    IF nodes = <<>> THEN List(<<>>)
    ELSE LET first == evaluate(c, Head(nodes))
         IN IF IsError(first) THEN first
            ELSE LET rest == EvaluateAll(c, Tail(nodes))
                 IN IF IsError(rest) THEN rest
                    ELSE List(<<first>> \o rest.items)

evaluate(c, n) ==
    IF n.type = "Placeable"
    THEN LET e == evaluate(c, n.expression)
         IN IF IsError(e) THEN e ELSE Placeable(e)
    ELSE IF n.type = "Pattern"
    THEN LET l == EvaluateAll(c, n.elements)
         IN IF IsError(l) THEN l ELSE Pattern(l.items)
    ELSE IF n.type = "Variant"
    THEN LET v == evaluate(c, n.value)
         IN IF IsError(v) THEN v ELSE [n EXCEPT !.value = v]
    ELSE IF n.type = "SelectExpression"
    THEN LET sel == evaluate(c, n.expression)
             vs == EvaluateAll(c, n.variants)
         IN IF IsError(sel) THEN sel
            ELSE IF IsError(vs) THEN vs
            ELSE SelectExpression(sel, vs.items)
    ELSE IF n.type = "CONCAT"
    THEN LET l == EvaluateAll(c, n.elements)
         IN IF IsError(l) THEN l ELSE CONCAT_call(c, CONCAT(l.items))
    ELSE IF n.type = "COPY" THEN COPY_call(c, n)
    ELSE IF n.type = "REPLACE"
    THEN REPLACE_IN_TEXT_call(
             c, REPLACE_IN_TEXT(Source_call(c, n), n.replacements))
    ELSE IF n.type = "REPLACE_IN_TEXT" THEN REPLACE_IN_TEXT_call(c, n)
    ELSE IF n.type = "PLURALS"
    THEN LET sel == evaluate(c, n.selector)
         IN IF IsError(sel) THEN sel
            ELSE PLURALS_call(c, [n EXCEPT !.selector = sel])
    ELSE n

(***************************************************************************)
(* REPLACE_IN_TEXT.__call__                                                *)
(***************************************************************************)
RECURSIVE PartitionLoop(_, _, _, _)
PartitionLoop(replacements, keys, tail, elems) ==
    IF keys = <<>> THEN List(Append(elems, TextElement(tail)))
    ELSE LET parts == partition(tail, Head(keys))
             key == parts[2]
         IN IF ~HasKey(replacements, key) THEN Raise("KeyError")
            ELSE PartitionLoop(
                     replacements, Tail(keys), parts[3],
                     elems \o <<TextElement(parts[1]),
                                Lookup(replacements, key)>>)

\* A variant that keeps the iteration order of the dict.
keys_in_dict_order(text, replacements) ==
    [i \in 1..Len(replacements) |-> replacements[i].key]

keys_in_order(text, replacements) ==
    StableSort([i \in 1..Len(replacements) |-> replacements[i].key],
               [i \in 1..Len(replacements) |->
                   find(text, replacements[i].key)])

REPLACE_IN_TEXT_call(c, n) ==
    LET text == n.element.value
        IsPresent(item) == Contains(text, item.key)
        present == SelectSeq(n.replacements, IsPresent)
        replacements ==
            [i \in 1..Len(present) |->
                Item(present[i].key, evaluate(c, present[i].repl))]
        failed == {i \in 1..Len(present) : IsError(replacements[i].repl)}
        parts ==
            PartitionLoop(replacements, keys_in_order(text, replacements),
                          text, <<>>)
    IN IF failed # {} THEN replacements[Min(failed)].repl
       ELSE IF IsError(parts) THEN parts
       ELSE pattern_of(parts.items)

(***************************************************************************)
(* PLURALS.__call__                                                        *)
(***************************************************************************)
VariantName(name) == [type |-> "VariantName", name |-> name]

foreach_call(foreach, form) ==
    IF foreach.type = "pattern_of" THEN pattern_of(<<form>>)
    ELSE REPLACE_IN_TEXT(form, foreach.replacements)

\* [key for key in reversed(DEFAULT_ORDER) if key in keys]
default_keys(keys) ==
    LET IsCategory(key) == key \in Range(keys)
    IN SelectSeq(Reverse(DEFAULT_ORDER), IsCategory)

\* A variant that takes the first category of DEFAULT_ORDER, not the last.
first_key(keys) == default_keys(keys)[Len(default_keys(keys))]

default_key(keys) == default_keys(keys)[1]

\* A variant that keeps the empty forms.
all_pairs(keys, forms) == zip(keys, forms)

plural_pairs(keys, forms) ==
    LET NotEmpty(pair) == pair[2].value # <<>>
    IN SelectSeq(zip(keys, forms), NotEmpty)

\* A variant that leaves the pairs in the order of the categories.
unsorted_pairs(pairs) == pairs

sort_pairs(pairs) ==
    StableSort(pairs,
               [i \in 1..Len(pairs) |-> index(DEFAULT_ORDER, pairs[i][1])])

with_default(pairs, default) ==
    LET last == pairs[Len(pairs)]
    IN IF last[1] # default THEN Append(pairs, <<default, last[2]>>)
       ELSE pairs

\* A variant that leaves what foreach returned unevaluated.
createVariant_unevaluated(c, foreach, default, key, form) ==
    VariantNode(VariantName(key), foreach_call(foreach, form), key = default)

createVariant(c, foreach, default, key, form) ==
    LET value == evaluate(c, foreach_call(foreach, form))
    IN IF IsError(value) THEN value
       ELSE VariantNode(VariantName(key), value, key = default)

PLURALS_call(c, n) ==
    LET element == Source_call(c, n)
        selector == evaluate(c, n.selector)
        keys == c.plural_categories
        parts == split(element.value, ";")
        forms == [i \in 1..Len(parts) |-> TextElement(parts[i])]
        default == default_key(keys)
        pairs == plural_pairs(keys, forms)
        all == with_default(sort_pairs(pairs), default)
        variants ==
            [i \in 1..Len(all) |->
                createVariant(c, n.foreach, default,
                              all[i][1], all[i][2])]
        failed == {i \in 1..Len(all) : IsError(variants[i])}
    IN IF IsError(selector) THEN selector
       ELSE IF default_keys(keys) = <<>> THEN Raise("IndexError")
       ELSE IF Len(pairs) = 0 THEN pattern_of(<<>>)
       ELSE IF Len(pairs) = 1
       THEN evaluate(c, foreach_call(n.foreach, pairs[1][2]))
       ELSE IF failed # {} THEN variants[Min(failed)]
       ELSE pattern_of(<<SelectExpression(selector, variants)>>)

(***************************************************************************)
(* Pattern assembly: evaluating a CONCAT node runs pattern_of on its       *)
(* elements, taken one step of the pipeline at a time.                     *)
(* preserve_whitespace may be run again on the list it returned.           *)
(***************************************************************************)
TextChars == {"a", " ", "\n"}

\* The arguments: text of at most one character as a TextElement or as a
\* string literal, a bare expression, and a Pattern that COPY returned.
PatternArgs ==
    {TextElement(t) : t \in TextsUpTo(TextChars, 1)}
    \cup {Placeable(StringExpression(t)) : t \in TextsUpTo(TextChars, 1)}
    \cup {VariableReference("num")}
    \cup {pattern_of(<<TextElement(<<" ", "a">>)>>)}

NoSpec == [type |-> "None"]

InitPattern ==
    /\ ctx = NoContext
    /\ spec = NoSpec
    /\ node \in {CONCAT(args) : args \in SeqsUpTo(PatternArgs, MaxElems)}
    /\ elements = <<>>
    /\ before = <<>>
    /\ result = None
    /\ pc = "flatten"

FlattenElements ==
    /\ pc = "flatten"
    /\ LET flat == flatten_elements(node.elements)
       IN IF IsError(flat)
          THEN /\ result' = flat
               /\ pc' = "raised"
               /\ UNCHANGED elements
          ELSE /\ elements' = flat.elements
               /\ pc' = "normalize"
               /\ UNCHANGED result
    /\ UNCHANGED <<ctx, spec, node, before>>

NormalizeTextContent ==
    /\ pc = "normalize"
    /\ elements' = normalize_text_content(elements)
    /\ pc' = "preserve"
    /\ UNCHANGED <<ctx, spec, node, before, result>>

PreserveWhitespace ==
    /\ pc = "preserve"
    /\ before' = elements
    /\ elements' = preserve_whitespace(elements)
    /\ result' = Pattern(elements')
    /\ pc' = "done"
    /\ UNCHANGED <<ctx, spec, node>>

PreserveWhitespaceAgain ==
    /\ pc = "done"
    /\ before' = elements
    /\ elements' = preserve_whitespace(elements)
    /\ pc' = "again"
    /\ UNCHANGED <<ctx, spec, node, result>>

NextPattern ==
    \/ FlattenElements
    \/ NormalizeTextContent
    \/ PreserveWhitespace
    \/ PreserveWhitespaceAgain

SpecPattern == InitPattern /\ [][NextPattern]_vars

(***************************************************************************)
(* Evaluating a migration: a Transform built by a migration spec is        *)
(* evaluated against the context, one action per Transform class.          *)
(***************************************************************************)
DtdPath == <<"a", ".", "d", "t", "d">>
LegacyKey == <<"k">>

EvaluateCOPY ==
    /\ pc = "built"
    /\ node.type = "COPY"
    /\ result' = evaluate(ctx, node)
    /\ pc' = "done"
    /\ UNCHANGED <<ctx, spec, node, elements, before>>

EvaluateREPLACE ==
    /\ pc = "built"
    /\ node.type = "REPLACE"
    /\ result' = evaluate(ctx, node)
    /\ pc' = "done"
    /\ UNCHANGED <<ctx, spec, node, elements, before>>

EvaluateREPLACE_IN_TEXT ==
    /\ pc = "built"
    /\ node.type = "REPLACE_IN_TEXT"
    /\ result' = evaluate(ctx, node)
    /\ pc' = "done"
    /\ UNCHANGED <<ctx, spec, node, elements, before>>

EvaluatePLURALS ==
    /\ pc = "built"
    /\ node.type = "PLURALS"
    /\ result' = evaluate(ctx, node)
    /\ pc' = "done"
    /\ UNCHANGED <<ctx, spec, node, elements, before>>

(***************************************************************************)
(* COPY of every legacy text.                                              *)
(***************************************************************************)
MaxSourceLen == 4

\* "VALUE"
ExampleValue == <<"V", "A", "L", "U", "E">>

SourceTexts == TextsUpTo(TextChars, MaxSourceLen) \cup {ExampleValue}

InitCopy ==
    /\ ctx \in {Context(text, <<"one", "other">>) : text \in SourceTexts}
    /\ spec = NoSpec
    /\ node = COPY(DtdPath, LegacyKey)
    /\ elements = <<>>
    /\ before = <<>>
    /\ result = None
    /\ pc = "built"

NextCopy == EvaluateCOPY

SpecCopy == InitCopy /\ [][NextCopy]_vars

(***************************************************************************)
(* PLURALS of every legacy text, for every list of plural categories.      *)
(***************************************************************************)
MaxPluralLen == 3
MaxCategories == 3

DistinctSeqs(S, n) ==
    {seq \in SeqsUpTo(S, n) :
        \A i, j \in 1..Len(seq) : i # j => seq[i] # seq[j]}

PluralChars == {"a", "#", ";"}

\* "one apple;many apples"
ExamplePlural ==
    <<"o", "n", "e", " ", "a", "p", "p", "l", "e", ";",
      "m", "a", "n", "y", " ", "a", "p", "p", "l", "e", "s">>

PluralTexts == TextsUpTo(PluralChars, MaxPluralLen) \cup {ExamplePlural}

\* The plural categories of a locale: at least one, all distinct.
PluralCategories ==
    (DistinctSeqs(Range(DEFAULT_ORDER), MaxCategories) \ {<<>>})
    \cup {<<"one", "few", "many", "other">>,
          <<"zero", "one", "two", "few", "many", "other">>}

NumReplacements == <<Item(<<"#">>, VariableReference("num"))>>

InitPlurals ==
    /\ ctx \in {Context(text, categories) :
                   text \in PluralTexts, categories \in PluralCategories}
    /\ spec = NoSpec
    /\ node \in {PLURALS(DtdPath, LegacyKey, VariableReference("num"), f) :
                    f \in {ForeachPatternOf, ForeachReplace(NumReplacements)}}
    /\ elements = <<>>
    /\ before = <<>>
    /\ result = None
    /\ pc = "built"

NextPlurals == EvaluatePLURALS

SpecPlurals == InitPlurals /\ [][NextPlurals]_vars

(***************************************************************************)
(* REPLACE_IN_TEXT of every text and REPLACE of every legacy text, for     *)
(* every replacements dict over the legacy placeables, in every iteration  *)
(* order of the dict.                                                      *)
(***************************************************************************)
MaxReplaceLen == 4
MaxKeys == 2

ReplaceChars == {"a", "#", "1", "2"}

\* "Hello #1, you have #2 items"
ExampleReplace ==
    <<"H", "e", "l", "l", "o", " ", "#", "1", ",", " ", "y", "o", "u", " ",
      "h", "a", "v", "e", " ", "#", "2", " ", "i", "t", "e", "m", "s">>

\* "#11 items", with the legacy placeables #1 and #11
ExampleOverlap == <<"#", "1", "1", " ", "i", "t", "e", "m", "s">>
LongKey == <<"#", "1", "1">>

ReplaceTexts ==
    TextsUpTo(ReplaceChars, MaxReplaceLen)
    \cup {ExampleReplace, ExampleOverlap}

ReplaceKeys == {<<"#", "1">>, <<"#", "2">>, <<"#">>, <<"1">>}

\* The replacement of each legacy placeable: expressions, and a Transform.
ReplacementOf(key) ==
    IF key = <<"#", "1">> THEN VariableReference("name")
    ELSE IF key = <<"#", "2">> THEN VariableReference("count")
    ELSE IF key = <<"#">> THEN CONCAT(<<VariableReference("hash")>>)
    ELSE IF key = LongKey THEN VariableReference("eleven")
    ELSE VariableReference("one")

ReplacementDicts ==
    {[i \in 1..Len(keys) |-> Item(keys[i], ReplacementOf(keys[i]))] :
        keys \in DistinctSeqs(ReplaceKeys, MaxKeys)
                  \cup {<<<<"#", "1">>, LongKey>>, <<LongKey, <<"#", "1">>>>}}

InitReplace ==
    /\ ctx \in {Context(text, <<"one", "other">>) : text \in ReplaceTexts}
    /\ spec = NoSpec
    /\ node \in
           {REPLACE_IN_TEXT(TextElement(ctx.source), d) : d \in ReplacementDicts}
           \cup {REPLACE(DtdPath, LegacyKey, d) : d \in ReplacementDicts}
    /\ elements = <<>>
    /\ before = <<>>
    /\ result = None
    /\ pc = "built"

NextReplace ==
    \/ EvaluateREPLACE_IN_TEXT
    \/ EvaluateREPLACE

SpecReplace == InitReplace /\ [][NextReplace]_vars

(***************************************************************************)
(* The FTL-to-Transform compiler (helpers.py).  The parser is given by the *)
(* AST it returns for the spec text.  Arguments of the fabricated calls    *)
(* are Python values: a str, a bool, or a dict of replacements.            *)
(***************************************************************************)
Resource(body) == [type |-> "Resource", body |-> body]
Message(id, value) == [type |-> "Message", id |-> id, value |-> value]
FunctionReference(name, positional, named) ==
    [type |-> "FunctionReference", id |-> name,
     positional |-> positional, named |-> named]
NamedArgument(name, value) == [name |-> name, value |-> value]
StringLiteral(v) == [type |-> "StringLiteral", value |-> v]
NumberLiteral(v) == [type |-> "NumberLiteral", value |-> v]
MessageReference(name) == [type |-> "MessageReference", id |-> name]
\* name.attribute
AttributeReference(name, attribute) ==
    [type |-> "MessageReference", id |-> name, attribute |-> attribute]

Str(v) == [type |-> "str", value |-> v]
Bool(b) == [type |-> "bool", flag |-> b]
Dict(items) == [type |-> "dict", items |-> items]

Substitution(name, value) == [name |-> name, value |-> value]

\* A variant that lets CONCAT through.
NO_IMPLICIT_TRANSFORMS == {}

IMPLICIT_TRANSFORMS == {"CONCAT"}
FORBIDDEN_TRANSFORMS == {"PLURALS"}

TrueText == <<"T", "r", "u", "e">>
FalseText == <<"F", "a", "l", "s", "e">>

into_argument(substitutions, arg) ==
    IF arg.type = "StringLiteral"
    THEN IF arg.value = TrueText THEN Bool(TRUE)
         ELSE IF arg.value = FalseText THEN Bool(FALSE)
         ELSE Str(arg.value)
    ELSE IF arg.type = "MessageReference"
    THEN IF \E i \in 1..Len(substitutions) : substitutions[i].name = arg.id
         THEN substitutions[
                  CHOOSE i \in 1..Len(substitutions) :
                      substitutions[i].name = arg.id].value
         ELSE Raise("InvalidTransformError")
    ELSE Raise("InvalidTransformError")

\* Binding of the positional and named arguments of a call to the
\* parameters of __init__: a missing, surplus or repeated argument is a
\* TypeError.
BindArguments(params, args, kwargs) ==
    LET Named(name) == {i \in 1..Len(kwargs) : kwargs[i].name = name}
        Bound(p) ==
            IF p <= Len(args) THEN args[p]
            ELSE kwargs[CHOOSE i \in Named(params[p]) : TRUE].value
    IN IF \/ Len(args) > Len(params)
          \/ \E i \in 1..Len(kwargs) : kwargs[i].name \notin Range(params)
          \/ \E p \in 1..Len(params) :
                 IF p <= Len(args) THEN Named(params[p]) # {}
                 ELSE Named(params[p]) = {}
       THEN Raise("TypeError")
       ELSE List([p \in 1..Len(params) |-> Bound(p)])

\* Source.__init__ calls path.endswith: only a str has it.
NewSource(type, bound) ==
    LET path == bound.items[1]
        key == bound.items[2]
    IN IF path.type # "str" THEN Raise("AttributeError")
       ELSE Source_init(path.value,
                [type |-> type, path |-> path.value,
                 key |-> IF key.type = "str" THEN key.value ELSE key])

NewCOPY(args, kwargs) ==
    LET bound == BindArguments(<<"path", "key">>, args, kwargs)
    IN IF IsError(bound) THEN bound ELSE NewSource("COPY", bound)

NewCOPY_PATTERN(args, kwargs) ==
    LET bound == BindArguments(<<"path", "key">>, args, kwargs)
    IN IF IsError(bound) THEN bound ELSE NewSource("COPY_PATTERN", bound)

NewREPLACE(args, kwargs) ==
    LET bound ==
            BindArguments(<<"path", "key", "replacements">>, args, kwargs)
        source == NewSource("REPLACE", bound)
    IN IF IsError(bound) THEN bound
       ELSE IF IsError(source) THEN source
       ELSE REPLACE(source.path, source.key, bound.items[3].items)

RECURSIVE visit(_, _)
RECURSIVE VisitAll(_, _)

\* A call of any other function is visited generically: its positional
\* arguments are visited in order (the values of named arguments are
\* literals, which no visit method changes).
visit_FunctionReference(substitutions, n) ==
    LET name == n.id
        args ==
            [i \in 1..Len(n.positional) |->
                into_argument(substitutions, n.positional[i])]
        kwargs ==
            [i \in 1..Len(n.named) |->
                NamedArgument(n.named[i].name,
                    into_argument(substitutions, n.named[i].value))]
        bad_args == {i \in 1..Len(args) : IsError(args[i])}
        bad_kwargs == {i \in 1..Len(kwargs) : IsError(kwargs[i].value)}
    IN IF name \in IMPLICIT_TRANSFORMS THEN Raise("NotSupportedError")
       ELSE IF name \in FORBIDDEN_TRANSFORMS THEN Raise("NotSupportedError")
       ELSE IF name \in {"COPY", "COPY_PATTERN", "REPLACE"}
       THEN IF bad_kwargs # {} THEN kwargs[Min(bad_kwargs)].value
            ELSE IF bad_args # {} THEN args[Min(bad_args)]
            ELSE IF name = "COPY" THEN NewCOPY(args, kwargs)
            ELSE IF name = "REPLACE" THEN NewREPLACE(args, kwargs)
            ELSE NewCOPY_PATTERN(args, kwargs)
       ELSE LET positional == VisitAll(substitutions, n.positional)
            IN IF IsError(positional) THEN positional
               ELSE [n EXCEPT !.positional = positional.items]

VisitAll(substitutions, nodes) ==
    IF nodes = <<>> THEN List(<<>>)
    ELSE LET first == visit(substitutions, Head(nodes))
         IN IF IsError(first) THEN first
            ELSE LET rest == VisitAll(substitutions, Tail(nodes))
                 IN IF IsError(rest) THEN rest
                    ELSE List(<<first>> \o rest.items)

visit_Placeable(substitutions, n) ==
    LET expression == visit(substitutions, n.expression)
    IN IF IsError(expression) THEN expression
       ELSE IF expression.type \in TransformTypes \cup {"COPY_PATTERN"}
       THEN expression
       ELSE Placeable(expression)

visit_Pattern(substitutions, n) ==
    LET elems == VisitAll(substitutions, n.elements)
    IN IF IsError(elems) THEN elems ELSE CONCAT(elems.items)

visit_Junk(n) == Raise("InvalidTransformError")

visit(substitutions, n) ==
    IF n.type = "Junk" THEN visit_Junk(n)
    ELSE IF n.type = "FunctionReference"
    THEN visit_FunctionReference(substitutions, n)
    ELSE IF n.type = "Placeable" THEN visit_Placeable(substitutions, n)
    ELSE IF n.type = "Pattern" THEN visit_Pattern(substitutions, n)
    ELSE IF n.type = "Message"
    THEN LET value == visit(substitutions, n.value)
         IN IF IsError(value) THEN value ELSE [n EXCEPT !.value = value]
    ELSE IF n.type = "Resource"
    THEN LET body == VisitAll(substitutions, n.body)
         IN IF IsError(body) THEN body ELSE Resource(body.items)
    ELSE n

transforms_from(ftl, substitutions) ==
    LET resource == visit(substitutions, ftl)
    IN IF IsError(resource) THEN resource ELSE List(resource.body)

(***************************************************************************)
(* Compiling a migration spec and evaluating the value of its message.     *)
(***************************************************************************)
\* "prefix " and " suffix"
PrefixText == <<"p", "r", "e", "f", "i", "x", " ">>
SuffixText == <<" ", "s", "u", "f", "f", "i", "x">>
KeyText == <<"k", "e", "y">>

\* new-key = prefix { COPY(<path>, "key") } suffix
CopySpec(path) ==
    Resource(<<Message("new-key",
        Pattern(<<TextElement(PrefixText),
                  Placeable(FunctionReference(
                      "COPY", <<path, StringLiteral(KeyText)>>, <<>>)),
                  TextElement(SuffixText)>>))>>)

MigrationSpec(ftl, substitutions) ==
    [type |-> "spec", ftl |-> ftl, substitutions |-> substitutions]

MigrationSpecs ==
    {MigrationSpec(CopySpec(MessageReference("path_id")),
                   <<Substitution("path_id", Str(DtdPath))>>),
     MigrationSpec(CopySpec(StringLiteral(DtdPath)), <<>>)}

\* Spec texts with up to MaxCalls fabricated calls in the value of the
\* message, each in a placeable of its own, after an entry the parser
\* could not read (Junk) or not:
\*   new-key = prefix { COPY(path_id, "key") }{ PLURALS(path_id, "key", $num) }
MaxCalls == 2

Junk == [type |-> "Junk"]

KeyArgument == StringLiteral(KeyText)
CopyOf(path) == FunctionReference("COPY", <<path, KeyArgument>>, <<>>)
ConcatCall == FunctionReference("CONCAT", <<KeyArgument>>, <<>>)
PluralsCall ==
    FunctionReference(
        "PLURALS",
        <<MessageReference("path_id"), KeyArgument, VariableReference("num")>>,
        <<>>)
NumberOf(argument) == FunctionReference("NUMBER", <<argument>>, <<>>)

SpecCalls ==
    {CopyOf(MessageReference("path_id")),
     CopyOf(MessageReference("unknown")),
     CopyOf(ConcatCall),
     ConcatCall,
     PluralsCall,
     NumberOf(VariableReference("num")),
     NumberOf(ConcatCall),
     NumberOf(PluralsCall)}

CallSpec(entries, calls) ==
    Resource(entries \o
        <<Message("new-key",
            Pattern(<<TextElement(PrefixText)>>
                    \o [i \in 1..Len(calls) |-> Placeable(calls[i])]))>>)

CallSpecs ==
    {MigrationSpec(CallSpec(entries, calls),
                   <<Substitution("path_id", Str(DtdPath))>>) :
        entries \in {<<>>, <<Junk>>},
        calls \in SeqsUpTo(SpecCalls, MaxCalls) \ {<<>>}}

InitCompile ==
    /\ \/ /\ ctx \in {Context(text, <<"one", "other">>) : text \in SourceTexts}
          /\ spec \in MigrationSpecs
       \/ /\ ctx = Context(ExampleValue, <<"one", "other">>)
          /\ spec \in CallSpecs
    /\ node = None
    /\ elements = <<>>
    /\ before = <<>>
    /\ result = None
    /\ pc = "spec"

TransformsFrom ==
    /\ pc = "spec"
    /\ LET body == transforms_from(spec.ftl, spec.substitutions)
       IN IF IsError(body)
          THEN /\ result' = body
               /\ pc' = "raised"
               /\ UNCHANGED node
          ELSE /\ node' = body.items[Len(body.items)].value
               /\ pc' = "built"
               /\ UNCHANGED result
    /\ UNCHANGED <<ctx, spec, elements, before>>

EvaluateCONCAT ==
    /\ pc = "built"
    /\ node.type = "CONCAT"
    /\ result' = evaluate(ctx, node)
    /\ pc' = "done"
    /\ UNCHANGED <<ctx, spec, node, elements, before>>

NextCompile ==
    \/ TransformsFrom
    \/ EvaluateCONCAT

SpecCompile == InitCompile /\ [][NextCompile]_vars

(***************************************************************************)
(* Compiling one fabricated call of COPY, COPY_PATTERN or REPLACE, for     *)
(* every list of up to MaxArgs positional arguments of the shapes the      *)
(* parser returns, with or without a named argument (whose value the       *)
(* grammar restricts to a literal).  The replacements of REPLACE are a     *)
(* dict, as the docstring of transforms_from demands: its third argument   *)
(* is not drawn among the shapes that convert to a str or a bool.          *)
(***************************************************************************)
MaxArgs == 3

ArgumentShapes ==
    {StringLiteral(KeyText),
     StringLiteral(TrueText),
     StringLiteral(FalseText),
     MessageReference("path_id"),
     MessageReference("replacements"),
     MessageReference("unknown"),
     AttributeReference("path_id", "attr"),
     NumberLiteral(<<"1">>),
     ConcatCall}

NamedArguments ==
    {<<>>,
     <<NamedArgument("key", StringLiteral(TrueText))>>,
     <<NamedArgument("key", NumberLiteral(<<"1">>))>>}

ArgumentSubstitutions ==
    <<Substitution("path_id", Str(DtdPath)),
      Substitution("replacements", Dict(NumReplacements))>>

ConvertsToText(arg) ==
    \/ arg.type = "StringLiteral"
    \/ arg.type = "MessageReference" /\ arg.id = "path_id"

ArgumentCalls ==
    {FunctionReference(name, positional, named) :
        name \in {"COPY", "COPY_PATTERN", "REPLACE"},
        positional \in SeqsUpTo(ArgumentShapes, MaxArgs),
        named \in NamedArguments}

ArgumentSpecs ==
    {MigrationSpec(CallSpec(<<>>, <<call>>), ArgumentSubstitutions) :
        call \in {c \in ArgumentCalls :
                     (c.id = "REPLACE" /\ Len(c.positional) >= 3)
                         => ~ConvertsToText(c.positional[3])}}

InitArguments ==
    /\ ctx = Context(ExampleValue, <<"one", "other">>)
    /\ spec \in ArgumentSpecs
    /\ node = None
    /\ elements = <<>>
    /\ before = <<>>
    /\ result = None
    /\ pc = "spec"

NextArguments == TransformsFrom

SpecArguments == InitArguments /\ [][NextArguments]_vars

(***************************************************************************)
(* evaluate of every tree of nested nodes up to MaxDepth levels: literal   *)
(* nodes and Transforms, with Transforms in the elements of CONCAT and of  *)
(* a Pattern, in a Placeable, in the values of a replacements dict, in the *)
(* selector of PLURALS and in what its foreach returns.                    *)
(***************************************************************************)
MaxDepth == 2

ResolveLeaves == {TextElement(<<"#">>), VariableReference("num")}

DictsOver(values) == {<<Item(<<"#">>, v)>> : v \in values}

FirstTransforms ==
    {COPY(DtdPath, LegacyKey)}
    \cup {CONCAT(<<v>>) : v \in ResolveLeaves}
    \cup {REPLACE_IN_TEXT(TextElement(<<"a", "#">>), d) :
              d \in DictsOver(ResolveLeaves)}

Foreachs ==
    {ForeachPatternOf}
    \cup {ForeachReplace(d) :
              d \in DictsOver(ResolveLeaves
                              \cup {COPY(DtdPath, LegacyKey),
                                    CONCAT(<<VariableReference("num")>>)})}

TransformsOver(values) ==
    {COPY(DtdPath, LegacyKey)}
    \cup {CONCAT(<<v>>) : v \in values}
    \cup {REPLACE_IN_TEXT(TextElement(<<"a", "#">>), d) :
              d \in DictsOver(values)}
    \cup {REPLACE(DtdPath, LegacyKey, d) :
              d \in DictsOver(ResolveLeaves \cup FirstTransforms)}
    \cup {PLURALS(DtdPath, LegacyKey, selector, foreach) :
              selector \in values, foreach \in Foreachs}

LiteralsOver(values) ==
    {Placeable(v) : v \in {w \in values : w.type # "TextElement"}}
    \cup {Pattern(<<v>>) :
              v \in {w \in values :
                        w.type \in PatternElementTypes \cup TransformTypes}}

RECURSIVE Trees(_)
Trees(depth) ==
    IF depth = 0 THEN ResolveLeaves
    ELSE LET lower == Trees(depth - 1)
         IN lower \cup TransformsOver(lower) \cup LiteralsOver(lower)

\* One form, two forms with the legacy placeable, no form.
ResolveTexts == {<<"#", "a">>, <<"#", ";", "a", "#">>, <<";">>}

InitResolve ==
    /\ ctx \in {Context(text, <<"one", "other">>) : text \in ResolveTexts}
    /\ spec = NoSpec
    /\ node \in Trees(MaxDepth)
    /\ elements = <<>>
    /\ before = <<>>
    /\ result = None
    /\ pc = "built"

\* evaluate of a node that is not a Transform.
EvaluateNode ==
    /\ pc = "built"
    /\ node.type \notin TransformTypes
    /\ result' = evaluate(ctx, node)
    /\ pc' = "done"
    /\ UNCHANGED <<ctx, spec, node, elements, before>>

NextResolve ==
    \/ EvaluateNode
    \/ EvaluateCOPY
    \/ EvaluateCONCAT
    \/ EvaluateREPLACE_IN_TEXT
    \/ EvaluateREPLACE
    \/ EvaluatePLURALS

SpecResolve == InitResolve /\ [][NextResolve]_vars

(***************************************************************************)
(* Objects and references.  Python nodes and lists are objects that are    *)
(* passed by reference; the only writes the transforms make to an object   *)
(* are `previous.value += current_text` of normalize_text_content and the  *)
(* slice assignments of preserve_whitespace to its list.  Here the memory  *)
(* is a sequence of objects and a reference is an index into it (0 is      *)
(* None): a Placeable refers to its expression, a Pattern and a CONCAT to  *)
(* the list of their elements, a list to its items.  The lists a function  *)
(* creates and drops before it returns are sequences of references.  A     *)
(* call returns the memory it leaves and its value.                        *)
(*                                                                         *)
(* In this specification `elements` is the memory, `before` the memory     *)
(* when the Transform was constructed, `node` the reference to the         *)
(* Transform and `result` the list of the references its calls returned.   *)
(***************************************************************************)
MaxRefs == 3

Returned(heap, value) == [heap |-> heap, value |-> value]

\* Creating an object: its reference is the next free index.
New(heap, object) == Returned(Append(heap, object), Len(heap) + 1)

\* The node at a reference, together with the expression it refers to.
NodeAt(heap, ref) ==
    IF heap[ref].type = "Placeable"
    THEN Placeable(heap[heap[ref].expression])
    ELSE heap[ref]

RECURSIVE FlattenObjects(_, _, _)
FlattenObjects(heap, flat, args) ==
    IF args = <<>> THEN Returned(heap, List(flat))
    ELSE LET element == heap[Head(args)]
         IN IF element.type = "Pattern"
            THEN FlattenObjects(heap, flat \o heap[element.elements].items,
                                Tail(args))
            ELSE IF element.type \in PatternElementTypes
            THEN FlattenObjects(heap, Append(flat, Head(args)), Tail(args))
            ELSE IF element.type \in ExpressionTypes
            THEN LET placeable == New(heap, Placeable(Head(args)))
                 IN FlattenObjects(placeable.heap,
                                   Append(flat, placeable.value), Tail(args))
            ELSE Returned(heap, Raise("RuntimeError"))

\* joined.append(current) of a TextElement itself instead of a new one.
SameTextElement(heap, current, current_text) ==
    IF heap[current].type = "TextElement" THEN Returned(heap, current)
    ELSE New(heap, TextElement(current_text))

\* FTL.TextElement(current_text)
NewTextElement(heap, current, current_text) ==
    New(heap, TextElement(current_text))

RECURSIVE NormalizeObjects(_, _, _)
NormalizeObjects(heap, joined, elems) ==
    IF elems = <<>> THEN Returned(heap, joined)
    ELSE LET current == Head(elems)
             n == Len(joined)
             previous == joined[n]
             current_text == get_text(NodeAt(heap, current))
         IN IF ~HasText(NodeAt(heap, current))
            THEN NormalizeObjects(heap, Append(joined, current), Tail(elems))
            ELSE IF n > 0 /\ heap[previous].type = "TextElement"
            THEN NormalizeObjects(
                     [heap EXCEPT ![previous].value = @ \o current_text],
                     joined, Tail(elems))
            ELSE IF Len(current_text) > 0
            THEN LET text == NewTextElement(heap, current, current_text)
                 IN NormalizeObjects(text.heap, Append(joined, text.value),
                                     Tail(elems))
            ELSE NormalizeObjects(heap, joined, Tail(elems))

NewPlaceableOfString(heap, text) ==
    LET expression == New(heap, StringExpression(text))
    IN New(expression.heap, Placeable(expression.value))

\* The pair of references (Placeable, TextElement); either may be None.
ExtractWhitespaceObjects(heap, match, element) ==
    IF match.matched
    THEN LET empty_expr == NewPlaceableOfString(heap, match.whitespace)
         IN IF match.whitespace = heap[element].value
            THEN Returned(empty_expr.heap, <<empty_expr.value, 0>>)
            ELSE LET text == New(empty_expr.heap, TextElement(match.text))
                 IN Returned(text.heap, <<empty_expr.value, text.value>>)
    ELSE Returned(heap, <<0, element>>)

IsTextElementAt(heap, ref) == ref # 0 /\ heap[ref].type = "TextElement"

SplitLeadingObjects(heap, elems) ==
    IF IsTextElementAt(heap, elems[1])
    THEN LET pair ==
                 ExtractWhitespaceObjects(
                     heap, re_leading(heap[elems[1]].value), elems[1])
         IN Returned(pair.heap, pair.value \o Tail(elems))
    ELSE Returned(heap, elems)

SplitTrailingObjects(heap, elems) ==
    LET n == Len(elems)
    IN IF IsTextElementAt(heap, elems[n])
       THEN LET pair ==
                    ExtractWhitespaceObjects(
                        heap, re_trailing(heap[elems[n]].value), elems[n])
            IN Returned(pair.heap,
                        SubSeq(elems, 1, n - 1)
                            \o <<pair.value[2], pair.value[1]>>)
       ELSE Returned(heap, elems)

IsNotNoneRef(ref) == ref # 0

PreserveWhitespaceObjects(heap, elems) ==
    IF Len(elems) = 0
    THEN LET empty == NewPlaceableOfString(heap, <<>>)
         IN Returned(empty.heap, <<empty.value>>)
    ELSE LET leading == SplitLeadingObjects(heap, elems)
             trailing == SplitTrailingObjects(leading.heap, leading.value)
         IN Returned(trailing.heap, SelectSeq(trailing.value, IsNotNoneRef))

\* pattern_of: the reference to the new Pattern, whose elements are the
\* new list preserve_whitespace returns.
PatternOfObjects(heap, args) ==
    LET flat == FlattenObjects(heap, <<>>, args)
        joined == NormalizeObjects(flat.heap, <<>>, flat.value.items)
        kept == PreserveWhitespaceObjects(joined.heap, joined.value)
        list == New(kept.heap, List(kept.value))
    IN IF IsError(flat.value) THEN flat
       ELSE New(list.heap, Pattern(list.value))

\* CONCAT.__call__: pattern_of is handed the items of self.elements.
CallCONCAT(heap, self) ==
    PatternOfObjects(heap, heap[heap[self].elements].items)

\* The objects a migration holds before it constructs the CONCAT: text
\* with and without whitespace at its ends, string literals, expressions
\* bare and in a Placeable, and a Pattern that shares two of the nodes.
GivenObjects ==
    << TextElement(<<" ", "a">>),
       TextElement(<<"b", " ">>),
       TextElement(<<" ">>),
       TextElement(<<>>),
       StringExpression(<<"c">>),
       Placeable(5),
       VariableReference("num"),
       Placeable(7),
       List(<<1, 8>>),
       Pattern(9) >>

GivenNodes == {1, 2, 3, 4, 5, 6, 7, 8, 10}

\* CONCAT.__init__ keeps a new list of the elements it is given.
NewCONCAT(heap, args) ==
    LET list == New(heap, List(args))
    IN New(list.heap, CONCAT(list.value))

InitObjects ==
    /\ ctx = NoContext
    /\ spec = NoSpec
    /\ \E args \in SeqsUpTo(GivenNodes, MaxRefs) :
           LET transform == NewCONCAT(GivenObjects, args)
           IN /\ node = transform.value
              /\ before = transform.heap
              /\ elements = transform.heap
    /\ result = List(<<>>)
    /\ pc = "built"

\* The Transform is called, a first and a second time.
EvaluateObjects ==
    /\ pc \in {"built", "once"}
    /\ LET returned == CallCONCAT(elements, node)
       IN /\ elements' = returned.heap
          /\ result' = List(Append(result.items, returned.value))
    /\ pc' = IF pc = "built" THEN "once" ELSE "twice"
    /\ UNCHANGED <<ctx, spec, node, before>>

NextObjects == EvaluateObjects

SpecObjects == InitObjects /\ [][NextObjects]_vars

(***************************************************************************)
(* Properties.                                                             *)
(***************************************************************************)
RECURSIVE JoinedText(_)
JoinedText(elems) ==
    IF elems = <<>> THEN <<>>
    ELSE get_text(Head(elems)) \o JoinedText(Tail(elems))

IsTextElement(element) == element.type = "TextElement"
TextRuns(elems) == SelectSeq(elems, IsTextElement)
OnlyTextElements(elems) == \A i \in 1..Len(elems) : IsTextElement(elems[i])
OnlyText(elems) == \A i \in 1..Len(elems) : HasText(elems[i])

StartsWithWhitespace(text) == text # <<>> /\ text[1] \in Whitespace
EndsWithWhitespace(text) == text # <<>> /\ text[Len(text)] \in Whitespace

OneTextRunOf(elems, text) ==
    /\ Len(TextRuns(elems)) = 1
    /\ TextRuns(elems)[1].value = text

\* C6 as stated: pattern_of over TextElements only returns a Pattern with
\* exactly one TextElement, whose value is the concatenation of the input
\* text in order.
C6_OnlyTextGivesOneTextRun ==
    (pc = "done" /\ OnlyTextElements(node.elements))
        => OneTextRunOf(result.elements, JoinedText(node.elements))

\* C6 amended: pattern_of over TextElements only, whose concatenation is
\* not empty and neither starts nor ends with whitespace, returns a Pattern
\* with exactly one TextElement, whose value is the concatenation of the
\* input text in order.
C6_TrimmedTextGivesOneTextRun ==
    (/\ pc = "done"
     /\ OnlyTextElements(node.elements)
     /\ JoinedText(node.elements) # <<>>
     /\ ~StartsWithWhitespace(JoinedText(node.elements))
     /\ ~EndsWithWhitespace(JoinedText(node.elements)))
        => OneTextRunOf(result.elements, JoinedText(node.elements))

C6_Witness ==
    /\ pc = "done"
    /\ OnlyTextElements(node.elements)
    /\ Len(node.elements) = 3
    /\ \A i \in 1..3 : node.elements[i].value # <<>>
    /\ \E i \in 1..Len(JoinedText(node.elements)) :
           JoinedText(node.elements)[i] = Newline
    /\ ~StartsWithWhitespace(JoinedText(node.elements))
    /\ ~EndsWithWhitespace(JoinedText(node.elements))
    /\ result = Pattern(<<TextElement(JoinedText(node.elements))>>)

\* C8: the list preserve_whitespace returns for a normalized list never
\* starts with a TextElement that begins with whitespace and never ends
\* with a TextElement that ends with whitespace.
C8_NoWhitespaceAtTheEdges ==
    pc = "done" =>
        /\ ~(/\ IsTextElement(elements[1])
             /\ StartsWithWhitespace(elements[1].value))
        /\ ~(/\ IsTextElement(elements[Len(elements)])
             /\ EndsWithWhitespace(elements[Len(elements)].value))

\* C9: preserve_whitespace is idempotent: run again on the list it
\* returned, it returns an equal list.
C9_PreserveWhitespaceIdempotent ==
    pc = "again" => elements = before

\* C7: COPY evaluates to a Pattern of TextElements and string-literal
\* Placeables whose values, concatenated in order, are the looked-up text.
C7_CopyKeepsTheText ==
    (pc = "done" /\ node.type = "COPY") =>
        /\ result.type = "Pattern"
        /\ OnlyText(result.elements)
        /\ JoinedText(result.elements) = ctx.source

(***************************************************************************)
(* Properties of PLURALS.  The legacy forms, the forms that are paired     *)
(* with a category and are not empty, and the expected variants are        *)
(* stated from the positions of the forms and of the categories.           *)
(***************************************************************************)
LegacyForms == split(ctx.source, ";")
Categories == ctx.plural_categories

NonEmptyForms == {i \in 1..Len(LegacyForms) : LegacyForms[i] # <<>>}
Survivors == {i \in NonEmptyForms : i <= Len(Categories)}

PerForm(text) == evaluate(ctx, foreach_call(node.foreach, TextElement(text)))

LastCategory ==
    DEFAULT_ORDER[Max({i \in 1..Len(DEFAULT_ORDER) :
                          DEFAULT_ORDER[i] \in Range(Categories)})]

EmptyValue == Pattern(<<Placeable(StringExpression(<<>>))>>)

IsSelect(pattern) ==
    /\ pattern.type = "Pattern"
    /\ Len(pattern.elements) = 1
    /\ pattern.elements[1].type = "Placeable"
    /\ pattern.elements[1].expression.type = "SelectExpression"

Variants == result.elements[1].expression.variants

ExpectedVariants ==
    LET Survives(key) == \E i \in Survivors : Categories[i] = key
        keys == SelectSeq(DEFAULT_ORDER, Survives)
        FormOf(key) == LegacyForms[index(Categories, key)]
        sorted == [i \in 1..Len(keys) |-> <<keys[i], PerForm(FormOf(keys[i]))>>]
        last == keys[Len(keys)]
    IN IF last # LastCategory
       THEN Append(sorted, <<LastCategory, PerForm(FormOf(last))>>)
       ELSE sorted

\* C2: a SelectExpression that PLURALS produces has exactly one default
\* variant, and its key is the last category of DEFAULT_ORDER that is among
\* the plural categories of the context.
C2_OneDefaultVariant ==
    (pc = "done" /\ Cardinality(Survivors) >= 2) =>
        /\ IsSelect(result)
        /\ Cardinality({i \in 1..Len(Variants) : Variants[i].default}) = 1
        /\ \A i \in 1..Len(Variants) :
               Variants[i].default => Variants[i].key.name = LastCategory

C2_Witness ==
    /\ pc = "done"
    /\ Categories = <<"few", "one", "many">>
    /\ Cardinality(Survivors) = 2
    /\ IsSelect(result)
    /\ Len(Variants) = 3
    /\ Variants[3].default
    /\ Variants[3].key.name = "many"

C4_SingleFormOfTheText ==
    (pc = "done" /\ Cardinality(NonEmptyForms) = 1) =>
        result = PerForm(LegacyForms[CHOOSE i \in NonEmptyForms : TRUE])

\* C4 amended: when the list of n categories is not empty and exactly one
\* of the first n forms of the legacy text is not empty, PLURALS produces
\* no SelectExpression and evaluates to the evaluated foreach of that form.
C4_SingleSurvivingForm ==
    (pc = "done" /\ Categories # <<>> /\ Cardinality(Survivors) = 1) =>
        /\ result = PerForm(LegacyForms[CHOOSE i \in Survivors : TRUE])
        /\ ~IsSelect(result)

C4_Witness ==
    /\ pc = "done"
    /\ Len(Categories) >= 2
    /\ Cardinality(Survivors) = 1
    /\ LegacyForms[1] = <<>>
    /\ node.foreach # ForeachPatternOf
    /\ result = Pattern(<<Placeable(VariableReference("num"))>>)

\* C5: a legacy text whose forms are all empty evaluates, for every
\* non-empty list of categories, to the Pattern pattern_of returns for no
\* elements: one Placeable of the empty string literal.
C5_EmptyFormsGiveEmptyValue ==
    (pc = "done" /\ NonEmptyForms = {} /\ Categories # <<>>) =>
        /\ result = EmptyValue
        /\ result = pattern_of(<<>>)

C5_Witness ==
    /\ pc = "done"
    /\ ctx.source = <<";", ";">>
    /\ Len(Categories) >= 2
    /\ result = EmptyValue

(***************************************************************************)
(* Properties of REPLACE_IN_TEXT and REPLACE.  The expected elements are   *)
(* cut out of the text at the first occurrence of each key.                *)
(***************************************************************************)
ReplacedText ==
    IF node.type = "REPLACE" THEN ctx.source ELSE node.element.value

PresentKeys ==
    {key \in {node.replacements[i].key : i \in 1..Len(node.replacements)} :
        Contains(ReplacedText, key)}

FirstAt(key) == find(ReplacedText, key)

\* The first occurrences of the present keys do not overlap.
KeysApart ==
    \A k1, k2 \in PresentKeys :
        k1 # k2 => \/ FirstAt(k1) + Len(k1) <= FirstAt(k2)
                   \/ FirstAt(k2) + Len(k2) <= FirstAt(k1)

RECURSIVE SegmentsFrom(_, _)
SegmentsFrom(pos, keys) ==
    IF keys = {}
    THEN <<TextElement(SubSeq(ReplacedText, pos + 1, Len(ReplacedText)))>>
    ELSE LET key == CHOOSE k \in keys :
                        \A other \in keys : FirstAt(k) <= FirstAt(other)
         IN <<TextElement(SubSeq(ReplacedText, pos + 1, FirstAt(key))),
              evaluate(ctx, ReplacementOf(key))>>
            \o SegmentsFrom(FirstAt(key) + Len(key), keys \ {key})

KeyOfVariable(id) ==
    CHOOSE key \in ReplaceKeys \cup {LongKey} :
        \/ ReplacementOf(key) = VariableReference(id)
        \/ ReplacementOf(key) = CONCAT(<<VariableReference(id)>>)

IsReplacement(element) ==
    /\ element.type = "Placeable"
    /\ element.expression.type = "VariableReference"

ReplacedKeys(pattern) ==
    LET placeables == SelectSeq(pattern.elements, IsReplacement)
    IN [i \in 1..Len(placeables) |->
           KeyOfVariable(placeables[i].expression.id)]

ExampleReplaced ==
    Pattern(<<TextElement(SubSeq(ExampleReplace, 1, 6)),
              Placeable(VariableReference("name")),
              TextElement(SubSeq(ExampleReplace, 9, 19)),
              Placeable(VariableReference("count")),
              TextElement(SubSeq(ExampleReplace, 22, 27))>>)

\* C10: REPLACE_IN_TEXT and REPLACE emit the text segments and the
\* evaluated replacements in the order of the first occurrence of each key
\* in the text, whatever the iteration order of the dict, and ignore the
\* keys the text does not contain; "Hello #1, you have #2 items" with
\* replacements for #1 and #2 gives "Hello ", the first replacement,
\* ", you have ", the second replacement, " items".
C10_ReplacementsInTextOrder ==
    pc = "done" =>
        /\ KeysApart => result = pattern_of(SegmentsFrom(0, PresentKeys))
        /\ result.type = "Pattern" =>
               LET keys == ReplacedKeys(result)
               IN /\ Len(keys) = Cardinality(PresentKeys)
                  /\ Range(keys) = PresentKeys
                  /\ \A i, j \in 1..Len(keys) :
                         i < j => FirstAt(keys[i]) <= FirstAt(keys[j])
        /\ (/\ ReplacedText = ExampleReplace
            /\ PresentKeys = {<<"#", "1">>, <<"#", "2">>})
               => result = ExampleReplaced

\* The dict lists #2 before #1, the text has #1 before #2.
C10_Witness ==
    /\ pc = "done"
    /\ node.type = "REPLACE"
    /\ ReplacedText = ExampleReplace
    /\ Len(node.replacements) = 2
    /\ node.replacements[1].key = <<"#", "2">>
    /\ node.replacements[2].key = <<"#", "1">>
    /\ result = ExampleReplaced

(***************************************************************************)
(* Repeated keys.  The positions of the text that the first occurrence of  *)
(* a present key covers are the substituted ones; the literal text of a    *)
(* Pattern is the text of its TextElements and string-literal Placeables.  *)
(***************************************************************************)
Occurrences(key) ==
    {i \in 0..Len(ReplacedText) : OccursAt(ReplacedText, key, i)}

RepeatedKeys == {key \in PresentKeys : Cardinality(Occurrences(key)) > 1}

Substituted ==
    {p \in 1..Len(ReplacedText) :
        \E key \in PresentKeys :
            FirstAt(key) < p /\ p <= FirstAt(key) + Len(key)}

RECURSIVE TextLeftFrom(_)
TextLeftFrom(p) ==
    IF p > Len(ReplacedText) THEN <<>>
    ELSE (IF p \in Substituted THEN <<>> ELSE <<ReplacedText[p]>>)
         \o TextLeftFrom(p + 1)

LiteralText(pattern) == JoinedText(SelectSeq(pattern.elements, HasText))

TimesReplaced(pattern, key) ==
    Cardinality({i \in 1..Len(ReplacedKeys(pattern)) :
                    ReplacedKeys(pattern)[i] = key})

\* C11: when a key occurs more than once in the text, REPLACE_IN_TEXT
\* returns a Pattern that has the replacement of that key exactly once and
\* whose literal text is the text without the first occurrence of each
\* present key: every later occurrence stays as literal text.
C11_OnlyFirstOccurrence ==
    (pc = "done" /\ RepeatedKeys # {}) =>
        /\ result.type = "Pattern"
        /\ \A key \in RepeatedKeys : TimesReplaced(result, key) = 1
        /\ LiteralText(result) = TextLeftFrom(1)

\* The same for keys whose first occurrences do not overlap.
C11_OnlyFirstOccurrenceApart ==
    (pc = "done" /\ RepeatedKeys # {} /\ KeysApart) =>
        /\ result.type = "Pattern"
        /\ \A key \in RepeatedKeys : TimesReplaced(result, key) = 1
        /\ LiteralText(result) = TextLeftFrom(1)

\* C16: REPLACE_IN_TEXT returns a Pattern, and never raises, for every
\* text and every replacements dict with non-empty keys, also when two
\* present keys overlap or one is a prefix of the other, such as "#1" and
\* "#11" in the text "#11 items".
C16_NeverFails ==
    (pc = "done" /\ node.type = "REPLACE_IN_TEXT") =>
        result.type = "Pattern"

(***************************************************************************)
(* Properties of the compiler.                                             *)
(***************************************************************************)
IsRoundTripSpec ==
    spec = MigrationSpec(CopySpec(MessageReference("path_id")),
                         <<Substitution("path_id", Str(DtdPath))>>)

\* C1: the compiled spec `new-key = prefix { COPY(path_id, "key") } suffix`
\* resolves to pattern_of of the prefix, the looked-up text and the suffix;
\* for the text "VALUE" that is the one TextElement "prefix VALUE suffix".
C1_RoundTrip ==
    (pc = "done" /\ IsRoundTripSpec) =>
        /\ result = pattern_of(<<TextElement(PrefixText),
                                 TextElement(ctx.source),
                                 TextElement(SuffixText)>>)
        /\ ctx.source = ExampleValue =>
               result = Pattern(<<TextElement(
                            PrefixText \o ExampleValue \o SuffixText)>>)

TransformCalls == {"COPY", "COPY_PATTERN", "REPLACE"}
ForbiddenCalls == {"CONCAT", "PLURALS"}

IsBound(name) ==
    \E i \in 1..Len(spec.substitutions) : spec.substitutions[i].name = name

IsValidArgument(arg) ==
    \/ arg.type = "StringLiteral"
    \/ arg.type = "MessageReference" /\ IsBound(arg.id)

\* The spec text calls CONCAT or PLURALS somewhere, the arguments of other
\* calls included.
RECURSIVE CallsForbidden(_)
CallsForbidden(n) ==
    IF n.type = "Resource"
    THEN \E i \in 1..Len(n.body) : CallsForbidden(n.body[i])
    ELSE IF n.type = "Message" THEN CallsForbidden(n.value)
    ELSE IF n.type = "Pattern"
    THEN \E i \in 1..Len(n.elements) : CallsForbidden(n.elements[i])
    ELSE IF n.type = "Placeable" THEN CallsForbidden(n.expression)
    ELSE IF n.type = "FunctionReference"
    THEN \/ n.id \in ForbiddenCalls
         \/ \E i \in 1..Len(n.positional) : CallsForbidden(n.positional[i])
    ELSE FALSE

\* The error of the first node of the spec text, in document order, that
\* does not compile: an entry that did not parse and an invalid argument of
\* COPY, COPY_PATTERN or REPLACE are invalid-transform errors, a call of
\* CONCAT or PLURALS elsewhere is a not-supported error.
RECURSIVE FirstError(_)
RECURSIVE FirstErrorOf(_)
FirstErrorOf(nodes) ==
    IF nodes = <<>> THEN "none"
    ELSE IF FirstError(Head(nodes)) # "none" THEN FirstError(Head(nodes))
    ELSE FirstErrorOf(Tail(nodes))

FirstError(n) ==
    IF n.type = "Junk" THEN "InvalidTransformError"
    ELSE IF n.type = "Resource" THEN FirstErrorOf(n.body)
    ELSE IF n.type = "Message" THEN FirstError(n.value)
    ELSE IF n.type = "Pattern" THEN FirstErrorOf(n.elements)
    ELSE IF n.type = "Placeable" THEN FirstError(n.expression)
    ELSE IF n.type = "FunctionReference"
    THEN IF n.id \in ForbiddenCalls THEN "NotSupportedError"
         ELSE IF n.id \in TransformCalls
         THEN IF \/ \E i \in 1..Len(n.positional) :
                        ~IsValidArgument(n.positional[i])
                 \/ \E i \in 1..Len(n.named) :
                        ~IsValidArgument(n.named[i].value)
              THEN "InvalidTransformError"
              ELSE "none"
         ELSE FirstErrorOf(n.positional)
    ELSE "none"

\* C12 as stated: compiling a spec text that calls CONCAT or PLURALS
\* anywhere fails with a not-supported error: no compiled message is
\* returned, and nothing is looked up or evaluated before the failure.
C12_ForbiddenAnywhere ==
    (pc # "spec" /\ spec.type = "spec" /\ CallsForbidden(spec.ftl)) =>
        /\ pc = "raised"
        /\ result = Raise("NotSupportedError")
        /\ node = None

\* C12 amended: compiling a spec text that calls CONCAT or PLURALS anywhere
\* fails: no compiled message is returned, and nothing is looked up or
\* evaluated before the failure.  The error is the one of the first node of
\* the text that does not compile: a not-supported error when that node is
\* the call of CONCAT or PLURALS, which it is unless the call is written
\* inside the arguments of COPY, COPY_PATTERN or REPLACE (an invalid
\* argument, an invalid-transform error) or an earlier node fails.
C12_ForbiddenCallFails ==
    (pc # "spec" /\ spec.type = "spec" /\ CallsForbidden(spec.ftl)) =>
        /\ pc = "raised"
        /\ result = Raise(FirstError(spec.ftl))
        /\ FirstError(spec.ftl) \in {"NotSupportedError", "InvalidTransformError"}
        /\ node = None

\* PLURALS after a COPY that compiles.
C12_Witness ==
    /\ pc = "raised"
    /\ spec \in CallSpecs
    /\ spec.ftl =
           CallSpec(<<>>, <<CopyOf(MessageReference("path_id")), PluralsCall>>)
    /\ result = Raise("NotSupportedError")
    /\ node = None

(***************************************************************************)
(* Properties of evaluate.                                                 *)
(***************************************************************************)
RECURSIVE NoTransform(_)
NoTransform(n) ==
    IF n.type \in TransformTypes THEN FALSE
    ELSE IF n.type = "Placeable" THEN NoTransform(n.expression)
    ELSE IF n.type = "Pattern"
    THEN \A i \in 1..Len(n.elements) : NoTransform(n.elements[i])
    ELSE IF n.type = "Variant" THEN NoTransform(n.value)
    ELSE IF n.type = "SelectExpression"
    THEN /\ NoTransform(n.expression)
         /\ \A i \in 1..Len(n.variants) : NoTransform(n.variants[i])
    ELSE TRUE

\* C13: evaluate returns a tree without any Transform, for every tree of
\* literal nodes and of COPY, REPLACE_IN_TEXT, REPLACE, CONCAT and PLURALS
\* nodes, also with Transforms in the values of a replacements dict, in the
\* selector of PLURALS and in what its foreach returns.
C13_NoTransformLeft ==
    pc = "done" =>
        /\ ~IsError(result)
        /\ NoTransform(result)

\* PLURALS with a COPY as selector and a foreach that returns
\* REPLACE_IN_TEXT with a CONCAT as replacement, for a text of two forms.
C13_Witness ==
    /\ pc = "done"
    /\ node.type = "PLURALS"
    /\ node.selector = COPY(DtdPath, LegacyKey)
    /\ node.foreach =
           ForeachReplace(<<Item(<<"#">>,
                                 CONCAT(<<VariableReference("num")>>))>>)
    /\ ctx.source = <<"#", ";", "a", "#">>
    /\ IsSelect(result)
    /\ Len(Variants) = 2
    /\ Variants[2].value =
           Pattern(<<TextElement(<<"a">>),
                     Placeable(VariableReference("num"))>>)
    /\ NoTransform(result)

(***************************************************************************)
(* Properties of the conversion of arguments.  The call is the one of the  *)
(* spec text; the Transform built from it is the element of the CONCAT     *)
(* that follows the text.                                                  *)
(***************************************************************************)
TheCall == spec.ftl.body[1].value.elements[2].expression
TheTransform == node.elements[2]

AllArguments(call) ==
    {call.positional[i] : i \in 1..Len(call.positional)}
    \cup {call.named[i].value : i \in 1..Len(call.named)}

IsIdentifier(arg) ==
    arg.type = "MessageReference" /\ "attribute" \notin DOMAIN arg

BoundValue(name) ==
    spec.substitutions[
        CHOOSE i \in 1..Len(spec.substitutions) :
            spec.substitutions[i].name = name].value

Converts(arg) ==
    \/ arg.type = "StringLiteral"
    \/ IsIdentifier(arg) /\ IsBound(arg.id)

Converted(arg) ==
    IF arg.type = "StringLiteral"
    THEN IF arg.value = TrueText THEN Bool(TRUE)
         ELSE IF arg.value = FalseText THEN Bool(FALSE)
         ELSE Str(arg.value)
    ELSE BoundValue(arg.id)

\* The argument given for the p-th parameter, by position or by name.
ArgumentFor(call, p, name) ==
    IF p <= Len(call.positional) THEN call.positional[p]
    ELSE call.named[CHOOSE i \in 1..Len(call.named) :
                        call.named[i].name = name].value

\* A field holds a str as its text and any other value as it is.
HoldsValue(field, value) ==
    IF value.type = "str" THEN field = value.value ELSE field = value

\* The fields of the Transform are the converted arguments.
BuiltFromConverted(call, transform) ==
    /\ transform.type = call.id
    /\ transform.path = Converted(ArgumentFor(call, 1, "path")).value
    /\ HoldsValue(transform.key, Converted(ArgumentFor(call, 2, "key")))
    /\ call.id = "REPLACE" =>
           transform.replacements =
               Converted(ArgumentFor(call, 3, "replacements")).items

ConversionOf(IsConverted(_)) ==
    pc # "spec" =>
        IF \A arg \in AllArguments(TheCall) : IsConverted(arg)
        THEN /\ result # Raise("InvalidTransformError")
             /\ pc = "built" => BuiltFromConverted(TheCall, TheTransform)
        ELSE /\ pc = "raised"
             /\ result = Raise("InvalidTransformError")
             /\ node = None

\* C14: of the arguments of COPY, COPY_PATTERN and REPLACE, a string
\* literal becomes its string value, "True" and "False" the booleans, and
\* an identifier the value bound to it in the substitutions; an identifier
\* that is not bound, and every other argument shape, fails with an
\* invalid-transform error and no Transform is built.
C14_ArgumentConversion == ConversionOf(Converts)

\* The same when a reference with an attribute (name.attribute) counts as
\* the identifier it starts with.
ConvertsByName(arg) ==
    \/ arg.type = "StringLiteral"
    \/ arg.type = "MessageReference" /\ IsBound(arg.id)

C14_ArgumentConversionByName == ConversionOf(ConvertsByName)

(***************************************************************************)
(* Properties of objects.  The value at a reference is the tree of nodes   *)
(* reached from it.                                                        *)
(***************************************************************************)
RECURSIVE ValueAt(_, _)
ValueAt(heap, ref) ==
    LET object == heap[ref]
    IN IF object.type = "Placeable"
       THEN Placeable(ValueAt(heap, object.expression))
       ELSE IF object.type = "list"
       THEN [i \in 1..Len(object.items) |-> ValueAt(heap, object.items[i])]
       ELSE IF object.type \in {"Pattern", "CONCAT"}
       THEN [object EXCEPT !.elements = ValueAt(heap, object.elements)]
       ELSE object

====
